---- MODULE Spec2Model ----
(***************************************************************************)
(* Driftline mission pipeline: the drift worker (services/drift-worker/    *)
(* worker.py) and the results processor (services/results-processor/       *)
(* processor.py) around the two Redis queues, the missions and             *)
(* mission_results tables and the S3 results bucket.                       *)
(***************************************************************************)
EXTENDS Integers, Sequences, FiniteSets, TLC

\* ---------------------------------------------------------------- bounds
MaxJobs == 2                     \* MissionJobs ever pushed onto drift_jobs

\* ------------------------------------------------------------- universes
Missions == {"m1", "m2"}         \* mission ids present in the missions table
Workers == {"w1", "w2"}          \* drift worker processes polling drift_jobs

NULL == "NULL"                   \* SQL NULL / Python None

STATUS_QUEUED == "queued"
STATUS_PROCESSING == "processing"
STATUS_COMPLETED == "completed"
STATUS_FAILED == "failed"
Terminal == {STATUS_COMPLETED, STATUS_FAILED}

\* str(e) of what the Simulation Engine can raise: an exception without a
\* message has the empty string form
EngineErrors == {"", "boom"}
\* str(e) of an Artifact Store failure raised by _upload_results
UploadError == "s3 unreachable"

\* Queue payloads that are no usable job: one json.loads rejects, and a JSON
\* object without mission_id or netcdf_path.
Malformed == "{not json"
Incomplete == "{}"

RawArtifact == "raw/particles.nc"
DerivedArtifacts == <<"trajectories.geojson", "heatmap.png", "report.pdf">>

\* str(e) of what process_results raises
NoValidParticles == "Failed to calculate density - no valid particles"
DownloadError == "raw download failed"
PublishError == "derived upload failed"
DatabaseError == "mission_results update failed"

VARIABLES
    missions,          \* missions table: id -> row
    mission_results,   \* mission_results table: mission_id -> rows, insertion order
    artifacts,         \* results bucket: mission_id -> keys stored under it
    job_queue,         \* Redis list drift_jobs
    results_queue,     \* Redis list results_processing
    pushed,            \* number of MissionJobs pushed so far
    worker,            \* per drift worker: position in run/process_job and locals
    processor,         \* the results processor: position in run/process_results
    redis_up,          \* whether the Redis server answers
    outages,           \* number of Redis outages so far
    dropped,           \* number of payloads the run loops logged and dropped
    ds,                \* trajectory dataset under analysis, last time step
    stats,             \* particle counts process_results derives from ds
    layers,            \* availability of each forcing layer for one mission
    forcing,           \* readers and fallback configuration the engine gets
    density,           \* a smoothed density grid, cell -> weight
    contours,          \* thresholds and search regions derived from density
    centroid,          \* grid edges and weighted centre derived from ds
    tracks,            \* a dataset with its time axis: particle -> positions
    geojson,           \* the documents written for tracks and a search region
    env,               \* process environment of a starting drift worker
    ctor,              \* progress and outcome of DriftWorker.__init__
    req,               \* a DataRequest
    verdict            \* outcome of DataRequest.validate on req

\* State of the polling loops' surroundings, and the inputs and results of
\* the computations studied on their own.
loop_vars == <<redis_up, outages, dropped>>
pure_vars == <<density, contours, centroid, tracks, geojson, env, ctor, req, verdict>>
unit_vars == <<ds, stats, layers, forcing, pure_vars>>

vars == <<missions, mission_results, artifacts, job_queue, results_queue,
          pushed, worker, processor, loop_vars, unit_vars>>

\* A worker blocked in blpop, no job in hand.
IdleWorker ==
    [pc |-> "poll", mission_id |-> NULL, error_msg |-> NULL, raised_by |-> NULL,
     result |-> NULL, write_failed |-> FALSE, enqueued |-> FALSE]

\* The processor blocked in blpop; tx_aborted is the state of its
\* non-autocommit connection.
IdleProcessor(aborted) ==
    [pc |-> "poll", mission_id |-> NULL, analysis |-> NULL, uploaded |-> 0,
     result |-> NULL, error |-> NULL, tx_aborted |-> aborted]

\* No dataset analysed yet.
NoStats ==
    [num_particles |-> 0, stranded_count |-> 0, valid |-> 0, analysis |-> NULL]

\* The three forcing layers _download_forcing_data asks the data-service for.
ForcingLayers == {"ocean-currents", "wind", "waves"}

\* What can happen to one layer: it is fetched and readable; the data-service
\* answers with an HTTP error, times out or returns no file path; the
\* download from storage fails; or the downloaded file cannot be opened by the
\* NetCDF reader.
LayerStates ==
    {"ok", "http_error", "timeout", "no_file_path", "download_fails", "unreadable"}

AllLayersOk == [l \in ForcingLayers |-> "ok"]

\* No engine configured yet.
NoForcing ==
    [forcing_files |-> {}, readers |-> {}, fallback |-> FALSE, raised |-> FALSE,
     configured |-> FALSE]

\* The density grid has one row per latitude bin and one column per
\* longitude bin (density.T of line 141); np.linspace(..., 100) makes 99 bins
\* per axis, the model keeps fewer.
LatBins == 2
LonBins == 3
MaxCell == 2                     \* largest weight of one cell of a drawn grid
Cells == (1..LatBins) \X (1..LonBins)

\* No grid yet (a density grid never has total weight 0).
NoDensity == [c \in Cells |-> 0]

NoContours ==
    [done |-> FALSE, threshold_50 |-> 0, threshold_90 |-> 0,
     region_50 |-> {}, region_90 |-> {}, tied_50 |-> FALSE,
     polygon_50 |-> FALSE, polygon_90 |-> FALSE,
     search_area_50_geom |-> NULL, search_area_90_geom |-> NULL]

NoCentroid ==
    [done |-> FALSE, lon_edges |-> << >>, lat_edges |-> << >>,
     lon_weighted |-> 0, lat_weighted |-> 0, weight |-> 0]

\* Nothing written yet. areas holds the levels whose search-area polygon
\* exists, contour a boundary find_contours returned, as (row, column) cells.
NoGeojson ==
    [done |-> FALSE, areas |-> {}, contour |-> << >>, document |-> << >>,
     polygon |-> << >>]

NoEnv == [v \in {} |-> NULL]

NoCtor == [pc |-> "idle", raised |-> NULL, named |-> {}, connected |-> FALSE]

NoReq ==
    [min_lat |-> 0, max_lat |-> 0, min_lon |-> 0, max_lon |-> 0,
     start_time |-> 0, end_time |-> 0]

\* Nothing drawn and nothing computed in the parts studied on their own.
PureIdle ==
    /\ density = NoDensity
    /\ contours = NoContours
    /\ centroid = NoCentroid
    /\ tracks = << >>
    /\ geojson = NoGeojson
    /\ env = NoEnv
    /\ ctor = NoCtor
    /\ req = NoReq
    /\ verdict = NULL

Init ==
    /\ missions = [m \in Missions |->
                     [status |-> STATUS_QUEUED, error_message |-> NULL,
                      completed_at |-> NULL]]
    /\ mission_results = [m \in Missions |-> << >>]
    /\ artifacts = [m \in Missions |-> {}]
    /\ job_queue = << >>
    /\ results_queue = << >>
    /\ pushed = 0
    /\ worker = [w \in Workers |-> IdleWorker]
    /\ processor = IdleProcessor(FALSE)
    /\ redis_up = TRUE
    /\ outages = 0
    /\ dropped = 0
    /\ ds = << >>
    /\ stats = NoStats
    /\ layers = AllLayersOk
    /\ forcing = NoForcing
    /\ PureIdle

\* ------------------------------------------------------------ job source
\* rpush of a MissionJob for mission m onto drift_jobs.
push_test_job(m) ==
    /\ pushed < MaxJobs
    /\ pushed' = pushed + 1
    /\ job_queue' = Append(job_queue, m)
    /\ UNCHANGED <<missions, mission_results, artifacts, results_queue,
                   worker, processor>>
    /\ UNCHANGED <<loop_vars, unit_vars>>

\* --------------------------------------------------- _update_mission_status
\* Python truthiness of an Optional[str] argument.
Truthy(v) == v # NULL /\ v # ""

\* Which of the three SQL branches _update_mission_status takes.
StatusBranch(error_message, result_location) ==
    IF Truthy(result_location) THEN "result"
    ELSE IF Truthy(error_message) THEN "error"
    ELSE "plain"

\* Variant of UpdateMissionsRow whose plain branch also stamps completed_at,
\* as the other two branches do.
UpdateMissionsRow_Stamp(row, status, error_message, result_location) ==
    LET branch == StatusBranch(error_message, result_location) IN
    IF branch = "error"
      THEN [row EXCEPT !.status = status, !.error_message = error_message,
                       !.completed_at = "now"]
    ELSE [row EXCEPT !.status = status, !.completed_at = "now"]

\* The UPDATE missions statement of the chosen branch, applied to one row.
UpdateMissionsRow(row, status, error_message, result_location) ==
    LET branch == StatusBranch(error_message, result_location) IN
    IF branch = "result"
      THEN [row EXCEPT !.status = status, !.completed_at = "now"]
    ELSE IF branch = "error"
      THEN [row EXCEPT !.status = status, !.error_message = error_message,
                       !.completed_at = "now"]
    ELSE [row EXCEPT !.status = status]

\* The row the INSERT INTO mission_results statement adds.
NewResultRow(result_location) ==
    [netcdf_path |-> result_location, centroid |-> NULL, search_areas |-> NULL,
     products |-> NULL, counts |-> NULL]

\* Outcomes of the database statements of one _update_mission_status call on
\* the autocommit connection: every statement succeeds, the first one fails,
\* or (result branch only) the UPDATE is committed and the INSERT fails.
DbOutcomes(error_message, result_location) ==
    IF StatusBranch(error_message, result_location) = "result"
      THEN {"ok", "update_fails", "insert_fails"}
      ELSE {"ok", "update_fails"}

\* Effect of _update_mission_status on the two tables.
_update_mission_status(mission_id, status, error_message, result_location, outcome) ==
    /\ missions' =
         IF outcome = "update_fails" THEN missions
         ELSE [missions EXCEPT ![mission_id] =
                 UpdateMissionsRow(@, status, error_message, result_location)]
    /\ mission_results' =
         IF outcome = "ok" /\ StatusBranch(error_message, result_location) = "result"
           THEN [mission_results EXCEPT ![mission_id] =
                   Append(@, NewResultRow(result_location))]
           ELSE mission_results

\* Variant of AfterStatusWrite in which _update_mission_status re-raises a
\* failed database statement into process_job.
AfterStatusWrite_Reraise(pc, outcome) ==
    IF outcome # "ok" THEN "except"
    ELSE IF pc = "mark_processing" THEN "simulate"
    ELSE IF pc = "mark_completed" THEN "enqueue"
    ELSE "returned"

\* Where process_job continues after a call of _update_mission_status made
\* at position pc: the except clause of lines 188-191 swallows the failure.
AfterStatusWrite(pc, outcome) ==
    IF pc = "mark_processing" THEN "simulate"
    ELSE IF pc = "mark_completed" THEN "enqueue"
    ELSE "returned"

\* -------------------------------------------------------------- run loop
\* Variant of blpop that reads the first payload and leaves it on the list.
blpop_Peek(queue) == [payload |-> Head(queue), rest |-> queue]

\* Redis BLPOP on a non-empty list: the first payload is removed and returned
\* in one atomic command.
blpop(queue) == [payload |-> Head(queue), rest |-> Tail(queue)]

\* blpop returns a payload, json.loads succeeds and process_job is entered.
Dequeue(w) ==
    /\ worker[w].pc = "poll"
    /\ redis_up
    /\ job_queue # << >>
    /\ blpop(job_queue).payload \in Missions
    /\ job_queue' = blpop(job_queue).rest
    /\ worker' = [worker EXCEPT ![w] =
                    [IdleWorker EXCEPT !.pc = "mark_processing",
                                       !.mission_id = blpop(job_queue).payload]]
    /\ UNCHANGED <<missions, mission_results, artifacts, results_queue,
                   pushed, processor>>
    /\ UNCHANGED <<loop_vars, unit_vars>>

\* process_job line 437: _update_mission_status(mission_id, STATUS_PROCESSING)
MarkProcessing(w) ==
    /\ worker[w].pc = "mark_processing"
    /\ \E outcome \in DbOutcomes(NULL, NULL) :
         /\ _update_mission_status(worker[w].mission_id, STATUS_PROCESSING,
                                  NULL, NULL, outcome)
         /\ worker' = [worker EXCEPT ![w].pc =
                         AfterStatusWrite("mark_processing", outcome)]
    /\ UNCHANGED <<artifacts, job_queue, results_queue, pushed, processor>>
    /\ UNCHANGED <<loop_vars, unit_vars>>

\* process_job lines 442-452: temp dir, forcing data, Simulation Engine. The
\* engine returns, or raises an exception whose string form is e.
Simulate(w) ==
    /\ worker[w].pc = "simulate"
    /\ \/ worker' = [worker EXCEPT ![w].pc = "upload"]
       \/ \E e \in EngineErrors :
            worker' = [worker EXCEPT ![w] =
                         [@ EXCEPT !.pc = "except", !.error_msg = e,
                                   !.raised_by = "engine"]]
    /\ UNCHANGED <<missions, mission_results, artifacts, job_queue,
                   results_queue, pushed, processor>>
    /\ UNCHANGED <<loop_vars, unit_vars>>

\* Effect of _upload_results on the bucket: upload_file stores the raw
\* trajectory under {mission_id}/raw/particles.nc, or the call raises.
_upload_results(mission_id, ok) ==
    artifacts' = IF ok THEN [artifacts EXCEPT ![mission_id] = @ \cup {RawArtifact}]
                 ELSE artifacts

\* Variant of AfterUpload in which _upload_results logs the failure and
\* returns instead of re-raising it.
AfterUpload_Swallow(ok) == "mark_completed"

\* Where process_job continues after _upload_results: lines 321-323 re-raise,
\* so a failed upload reaches the except clause of line 475.
AfterUpload(ok) == IF ok THEN "mark_completed" ELSE "except"

\* process_job line 455
Upload(w) ==
    /\ worker[w].pc = "upload"
    /\ \E ok \in BOOLEAN :
         /\ _upload_results(worker[w].mission_id, ok)
         /\ worker' = [worker EXCEPT ![w] =
                         IF AfterUpload(ok) = "except"
                           THEN [@ EXCEPT !.pc = "except", !.error_msg = UploadError,
                                          !.raised_by = "upload"]
                           ELSE [@ EXCEPT !.pc = AfterUpload(ok)]]
    /\ UNCHANGED <<missions, mission_results, job_queue, results_queue,
                   pushed, processor>>
    /\ UNCHANGED <<loop_vars, unit_vars>>

\* process_job lines 458-462: _update_mission_status(mission_id,
\* STATUS_COMPLETED, result_location=result_location)
MarkCompleted(w) ==
    /\ worker[w].pc = "mark_completed"
    /\ \E outcome \in DbOutcomes(NULL, RawArtifact) :
         /\ _update_mission_status(worker[w].mission_id, STATUS_COMPLETED,
                                   NULL, RawArtifact, outcome)
         /\ worker' = [worker EXCEPT ![w] =
                         [@ EXCEPT !.pc = AfterStatusWrite("mark_completed", outcome),
                                   !.write_failed = (outcome # "ok")]]
    /\ UNCHANGED <<artifacts, job_queue, results_queue, pushed, processor>>
    /\ UNCHANGED <<loop_vars, unit_vars>>

\* Effect of _enqueue_results_processing on results_processing: rpush of the
\* ResultsJob, or a swallowed failure.
_enqueue_results_processing(mission_id, ok) ==
    results_queue' = IF ok THEN Append(results_queue, mission_id)
                     ELSE results_queue

\* process_job lines 465-473
EnqueueResults(w) ==
    /\ worker[w].pc = "enqueue"
    /\ \E ok \in (IF redis_up THEN BOOLEAN ELSE {FALSE}) :
         /\ _enqueue_results_processing(worker[w].mission_id, ok)
         /\ worker' = [worker EXCEPT ![w] =
                         [@ EXCEPT !.pc = "returned", !.result = STATUS_COMPLETED,
                                   !.enqueued = ok]]
    /\ UNCHANGED <<missions, mission_results, artifacts, job_queue,
                   pushed, processor>>
    /\ UNCHANGED <<loop_vars, unit_vars>>

\* process_job lines 475-490: the except clause
MarkFailed(w) ==
    /\ worker[w].pc = "except"
    /\ \E outcome \in DbOutcomes(worker[w].error_msg, NULL) :
         /\ _update_mission_status(worker[w].mission_id, STATUS_FAILED,
                                   worker[w].error_msg, NULL, outcome)
         /\ worker' = [worker EXCEPT ![w] =
                         [@ EXCEPT !.pc = AfterStatusWrite("except", outcome),
                                   !.result = STATUS_FAILED]]
    /\ UNCHANGED <<artifacts, job_queue, results_queue, pushed, processor>>
    /\ UNCHANGED <<loop_vars, unit_vars>>

\* run line 519: the result is logged and the loop polls again; or the
\* body of `if result:` (line 508) was skipped after a timed-out blpop.
LoopAgain(w) ==
    /\ worker[w].pc \in {"returned", "timed_out"}
    /\ worker' = [worker EXCEPT ![w] = IdleWorker]
    /\ UNCHANGED <<missions, mission_results, artifacts, job_queue,
                   results_queue, pushed, processor>>
    /\ UNCHANGED <<loop_vars, unit_vars>>

\* The worker process dies inside process_job and is started again. blpop
\* (line 506) already removed the payload from drift_jobs and nothing puts it
\* back.
Crash(w) ==
    /\ worker[w].pc \notin {"poll", "returned", "reconnect"}
    /\ worker' = [worker EXCEPT ![w] = IdleWorker]
    /\ UNCHANGED <<missions, mission_results, artifacts, job_queue,
                   results_queue, pushed, processor>>
    /\ UNCHANGED <<loop_vars, unit_vars>>

\* ------------------------------------------------------ results processor
\* ResultsProcessor.run: blpop returns a ResultsJob, json.loads succeeds, both
\* fields are present and process_results is entered.
PDequeue ==
    /\ processor.pc = "poll"
    /\ redis_up
    /\ results_queue # << >>
    /\ blpop(results_queue).payload \in Missions
    /\ results_queue' = blpop(results_queue).rest
    /\ processor' = [processor EXCEPT !.pc = "analyse",
                                      !.mission_id = blpop(results_queue).payload]
    /\ UNCHANGED <<missions, mission_results, artifacts, job_queue, pushed, worker>>
    /\ UNCHANGED <<loop_vars, unit_vars>>

\* Outcomes of process_results lines 376-432 for the artifacts stored under a
\* mission: the raw dataset is downloaded and has valid final positions; it has
\* none (ValueError of line 406); or the download raises, which it must when
\* the raw artifact is absent.
AnalyseOutcomes(stored) ==
    IF RawArtifact \in stored THEN {"ok", "no_valid_particles", "download_fails"}
    ELSE {"download_fails"}

\* Variant of AfterAnalyse without the density-is-None test of lines 405-406.
AfterAnalyse_NoCheck(outcome) ==
    IF outcome = "download_fails" THEN "returned" ELSE "upload"

\* Where process_results continues after the analysis: only a dataset with
\* valid final positions reaches the uploads, lines 405-406 raise otherwise.
AfterAnalyse(outcome) == IF outcome = "ok" THEN "upload" ELSE "returned"

\* process_results lines 376-432: download, density, polygons, GeoJSON,
\* heatmap and report, all local to the temp dir.
PAnalyse ==
    /\ processor.pc = "analyse"
    /\ \E outcome \in AnalyseOutcomes(artifacts[processor.mission_id]) :
         processor' = IF AfterAnalyse(outcome) = "upload"
                        THEN [processor EXCEPT !.pc = "upload", !.uploaded = 0,
                                               !.analysis = outcome]
                        ELSE [processor EXCEPT
                                !.pc = "returned", !.result = "raised",
                                !.analysis = outcome,
                                !.error = IF outcome = "no_valid_particles"
                                            THEN NoValidParticles
                                            ELSE DownloadError]
    /\ UNCHANGED <<missions, mission_results, artifacts, job_queue,
                   results_queue, pushed, worker>>
    /\ UNCHANGED <<loop_vars, unit_vars>>

\* process_results lines 436-438: the next of the three _upload_to_s3 calls;
\* a failed upload raises out of process_results.
PUpload ==
    /\ processor.pc = "upload"
    /\ \E ok \in BOOLEAN :
         IF ok
           THEN /\ artifacts' = [artifacts EXCEPT ![processor.mission_id] =
                                   @ \cup {DerivedArtifacts[processor.uploaded + 1]}]
                /\ processor' = [processor EXCEPT
                                   !.uploaded = @ + 1,
                                   !.pc = IF processor.uploaded + 1 = Len(DerivedArtifacts)
                                            THEN "update" ELSE "upload"]
           ELSE /\ artifacts' = artifacts
                /\ processor' = [processor EXCEPT !.pc = "returned",
                                                  !.result = "raised",
                                                  !.error = PublishError]
    /\ UNCHANGED <<missions, mission_results, job_queue, results_queue,
                   pushed, worker>>
    /\ UNCHANGED <<loop_vars, unit_vars>>

\* Variant of UpdateResultRows whose statement sets the centroid columns
\* only, the other columns being left to a later statement.
UpdateResultRows_CentroidOnly(rows) ==
    [i \in 1..Len(rows) |-> [rows[i] EXCEPT !.centroid = "set"]]

\* The UPDATE mission_results ... WHERE mission_id = %s statement: every row
\* of the mission gets the centroid, the search areas, the artifact
\* references and the particle counts of this run in one statement.
UpdateResultRows(rows) ==
    [i \in 1..Len(rows) |->
        [rows[i] EXCEPT !.centroid = "set", !.search_areas = "set",
                        !.products = "set", !.counts = "set"]]

\* process_results lines 442-472 on the non-autocommit connection: execute
\* and commit, or a failure that leaves the transaction aborted (nothing in
\* process_results or run rolls back).
PUpdate ==
    /\ processor.pc = "update"
    /\ \E ok \in BOOLEAN :
         IF ok /\ ~processor.tx_aborted
           THEN /\ mission_results' = [mission_results EXCEPT ![processor.mission_id] =
                                         UpdateResultRows(@)]
                /\ processor' = [processor EXCEPT !.pc = "returned",
                                                  !.result = STATUS_COMPLETED]
           ELSE /\ mission_results' = mission_results
                /\ processor' = [processor EXCEPT !.pc = "returned",
                                                  !.result = "raised",
                                                  !.error = DatabaseError,
                                                  !.tx_aborted = TRUE]
    /\ UNCHANGED <<missions, artifacts, job_queue, results_queue, pushed, worker>>
    /\ UNCHANGED <<loop_vars, unit_vars>>

\* ResultsProcessor.run lines 529-534: result or exception is logged, the loop
\* polls again; or the body of `if result:` (line 513) was skipped after a
\* timed-out blpop.
PLoopAgain ==
    /\ processor.pc \in {"returned", "timed_out"}
    /\ processor' = IdleProcessor(processor.tx_aborted)
    /\ UNCHANGED <<missions, mission_results, artifacts, job_queue,
                   results_queue, pushed, worker>>
    /\ UNCHANGED <<loop_vars, unit_vars>>

Next ==
    \/ \E m \in Missions : push_test_job(m)
    \/ \E w \in Workers : Dequeue(w)
    \/ \E w \in Workers : MarkProcessing(w)
    \/ \E w \in Workers : Simulate(w)
    \/ \E w \in Workers : Upload(w)
    \/ \E w \in Workers : MarkCompleted(w)
    \/ \E w \in Workers : EnqueueResults(w)
    \/ \E w \in Workers : MarkFailed(w)
    \/ \E w \in Workers : LoopAgain(w)
    \/ \E w \in Workers : Crash(w)
    \/ PDequeue
    \/ PAnalyse
    \/ PUpload
    \/ PUpdate
    \/ PLoopAgain

Spec == Init /\ [][Next]_vars

\* ---------------------------------------------- particle counts of a dataset
MaxParticles == 2                \* particles in a trajectory dataset

\* A float is << >> when it is not-a-number and <<x>> when it has the value x.
NaN == << >>
Coords == {NaN, <<0>>, <<1>>}    \* a coordinate at the last time step
Positions == [lon : Coords, lat : Coords]

Datasets == UNION {[1..n -> Positions] : n \in 0..MaxParticles}

isnan(v) == v = NaN

\* process_results lines 393-394: int(np.isnan(final_lons).sum())
stranded_count(d) == Cardinality({i \in DOMAIN d : isnan(d[i].lon)})

\* _calculate_density_and_contours line 124:
\* valid_mask = ~(np.isnan(lons) | np.isnan(lats))
valid_mask(d) == [i \in DOMAIN d |-> ~(isnan(d[i].lon) \/ isnan(d[i].lat))]

\* lines 125-126: the final positions kept for the density grid
valid_positions(d) == SelectSeq(d, LAMBDA p : ~(isnan(p.lon) \/ isnan(p.lat)))

\* lines 128-130 and 405-406: no valid position, no density
AnalysisOf(d) == IF Len(valid_positions(d)) = 0 THEN "no_valid_particles" ELSE "ok"

\* The counts process_results takes from the dataset (lines 389-406):
\* num_particles and stranded_count go to the result row, valid is the
\* number of positions handed to histogram2d.
CountParticles ==
    /\ stats = NoStats
    /\ stats' = [num_particles |-> Len(ds),
                 stranded_count |-> stranded_count(ds),
                 valid |-> Len(valid_positions(ds)),
                 analysis |-> AnalysisOf(ds)]
    /\ UNCHANGED <<missions, mission_results, artifacts, job_queue,
                   results_queue, pushed, worker, processor>>
    /\ UNCHANGED <<loop_vars, ds, layers, forcing, pure_vars>>

InitStats ==
    /\ missions = [m \in Missions |->
                     [status |-> STATUS_COMPLETED, error_message |-> NULL,
                      completed_at |-> "now"]]
    /\ mission_results = [m \in Missions |-> <<NewResultRow(RawArtifact)>>]
    /\ artifacts = [m \in Missions |-> {RawArtifact}]
    /\ job_queue = << >>
    /\ results_queue = << >>
    /\ pushed = 0
    /\ worker = [w \in Workers |-> IdleWorker]
    /\ processor = [IdleProcessor(FALSE) EXCEPT !.pc = "analyse", !.mission_id = "m1"]
    /\ redis_up = TRUE
    /\ outages = 0
    /\ dropped = 0
    /\ ds \in Datasets
    /\ stats = NoStats
    /\ layers = AllLayersOk
    /\ forcing = NoForcing
    /\ PureIdle

NextStats == CountParticles

SpecStats == InitStats /\ [][NextStats]_vars

\* ------------------------------------------------ forcing data and fallback
\* _download_forcing_data lines 227-272: the layers for which a local file
\* was obtained; every failure of a layer is caught and logged.
_download_forcing_data(avail) ==
    {l \in ForcingLayers : avail[l] \in {"ok", "unreadable"}}

\* _run_opendrift_simulation lines 364-375: the layers whose reader was
\* added; a reader that fails to open is caught and logged.
readers_added(forcing_files, avail) ==
    {l \in forcing_files : avail[l] = "ok"}

\* line 378: the fallback constants are set only if no reader at all was added
fallback_mode(readers) == readers = {}

\* process_job lines 447-452 up to the seeding of particles.
ConfigureEngine ==
    /\ ~forcing.configured
    /\ LET files == _download_forcing_data(layers)
           readers == readers_added(files, layers)
       IN forcing' = [forcing_files |-> files, readers |-> readers,
                      fallback |-> fallback_mode(readers), raised |-> FALSE,
                      configured |-> TRUE]
    /\ UNCHANGED <<missions, mission_results, artifacts, job_queue,
                   results_queue, pushed, worker, processor>>
    /\ UNCHANGED <<loop_vars, ds, stats, layers, pure_vars>>

InitForcing ==
    /\ missions = [m \in Missions |->
                     [status |-> IF m = "m1" THEN STATUS_PROCESSING ELSE STATUS_QUEUED,
                      error_message |-> NULL, completed_at |-> NULL]]
    /\ mission_results = [m \in Missions |-> << >>]
    /\ artifacts = [m \in Missions |-> {}]
    /\ job_queue = << >>
    /\ results_queue = << >>
    /\ pushed = 1
    /\ worker = [w \in Workers |->
                   IF w = "w1" THEN [IdleWorker EXCEPT !.pc = "simulate",
                                                       !.mission_id = "m1"]
                   ELSE IdleWorker]
    /\ processor = IdleProcessor(FALSE)
    /\ redis_up = TRUE
    /\ outages = 0
    /\ dropped = 0
    /\ ds = << >>
    /\ stats = NoStats
    /\ layers \in [ForcingLayers -> LayerStates]
    /\ forcing = NoForcing
    /\ PureIdle

NextForcing == ConfigureEngine

SpecForcing == InitForcing /\ [][NextForcing]_vars

\* ------------------------------------- polling loops: bad payloads, outages
MaxQueued == 2                   \* payloads on drift_jobs when the loops start
MaxOutages == 1                  \* Redis outages

\* Variant of after_invalid_job that puts the rejected payload back on the list.
after_invalid_job_Requeue(rest, payload) == Append(rest, payload)

\* What is left of the list after a payload was popped and rejected: the
\* except clauses of run (worker.py 521-524, processor.py 523-534) only log.
after_invalid_job(rest, payload) == rest

\* DriftWorker.run lines 506-522: blpop returns a payload, json.loads raises
\* JSONDecodeError, the error is logged and the loop polls again.
DropMalformed(w) ==
    /\ worker[w].pc = "poll"
    /\ redis_up
    /\ job_queue # << >>
    /\ blpop(job_queue).payload \notin Missions
    /\ job_queue' = after_invalid_job(blpop(job_queue).rest, blpop(job_queue).payload)
    /\ dropped' = dropped + 1
    /\ UNCHANGED <<missions, mission_results, artifacts, results_queue,
                   pushed, worker, processor>>
    /\ UNCHANGED <<redis_up, outages, unit_vars>>

\* ResultsProcessor.run lines 511-532: the payload does not parse, or the
\* parsed job lacks mission_id or netcdf_path (continue of line 525).
PDropMalformed ==
    /\ processor.pc = "poll"
    /\ redis_up
    /\ results_queue # << >>
    /\ blpop(results_queue).payload \notin Missions
    /\ results_queue' = after_invalid_job(blpop(results_queue).rest,
                                          blpop(results_queue).payload)
    /\ dropped' = dropped + 1
    /\ UNCHANGED <<missions, mission_results, artifacts, job_queue,
                   pushed, worker, processor>>
    /\ UNCHANGED <<redis_up, outages, unit_vars>>

\* The Redis server becomes unreachable, and reachable again.
RedisDown ==
    /\ redis_up
    /\ outages < MaxOutages
    /\ redis_up' = FALSE
    /\ outages' = outages + 1
    /\ UNCHANGED <<missions, mission_results, artifacts, job_queue,
                   results_queue, pushed, worker, processor>>
    /\ UNCHANGED <<dropped, unit_vars>>

RedisUp ==
    /\ ~redis_up
    /\ redis_up' = TRUE
    /\ UNCHANGED <<missions, mission_results, artifacts, job_queue,
                   results_queue, pushed, worker, processor>>
    /\ UNCHANGED <<outages, dropped, unit_vars>>

\* DriftWorker.run lines 526-528: blpop raises redis.ConnectionError, the
\* loop logs it and sleeps before reconnecting.
ConnectionError(w) ==
    /\ worker[w].pc = "poll"
    /\ ~redis_up
    /\ worker' = [worker EXCEPT ![w].pc = "reconnect"]
    /\ UNCHANGED <<missions, mission_results, artifacts, job_queue,
                   results_queue, pushed, processor>>
    /\ UNCHANGED <<loop_vars, unit_vars>>

\* Variant of AfterReconnect in which a failed _init_connections ends run.
AfterReconnect_Raise(ok) == IF ok THEN "poll" ELSE "stopped"

\* Where run continues after _init_connections: lines 529-532 catch and log a
\* failed reconnect, and the while loop goes on either way.
AfterReconnect(ok) == "poll"

\* DriftWorker.run lines 529-532: _init_connections builds a new Redis
\* client and pings it, which fails while the server is unreachable.
Reconnect(w) ==
    /\ worker[w].pc = "reconnect"
    /\ \E ok \in (IF redis_up THEN BOOLEAN ELSE {FALSE}) :
         worker' = [worker EXCEPT ![w].pc = AfterReconnect(ok)]
    /\ UNCHANGED <<missions, mission_results, artifacts, job_queue,
                   results_queue, pushed, processor>>
    /\ UNCHANGED <<loop_vars, unit_vars>>

\* ResultsProcessor.run lines 536-538
PConnectionError ==
    /\ processor.pc = "poll"
    /\ ~redis_up
    /\ processor' = [processor EXCEPT !.pc = "reconnect"]
    /\ UNCHANGED <<missions, mission_results, artifacts, job_queue,
                   results_queue, pushed, worker>>
    /\ UNCHANGED <<loop_vars, unit_vars>>

\* ResultsProcessor.run lines 539-542: _init_connections makes a new Redis
\* client without contacting the server, then a new database connection; when
\* psycopg2.connect succeeds the fresh connection has no open transaction,
\* when it raises the old connection object stays.
PReconnect ==
    /\ processor.pc = "reconnect"
    /\ \E ok \in BOOLEAN :
         processor' = [processor EXCEPT
                         !.pc = AfterReconnect(ok),
                         !.tx_aborted = IF ok THEN FALSE ELSE @]
    /\ UNCHANGED <<missions, mission_results, artifacts, job_queue,
                   results_queue, pushed, worker>>
    /\ UNCHANGED <<loop_vars, unit_vars>>

\* Finite sequences over S of length at most n.
SeqsUpTo(S, n) == UNION {[1..k -> S] : k \in 0..n}

\* The loops start with payloads already waiting on the two lists.
InitRun ==
    /\ missions = [m \in Missions |->
                     [status |-> STATUS_QUEUED, error_message |-> NULL,
                      completed_at |-> NULL]]
    /\ mission_results = [m \in Missions |-> << >>]
    /\ artifacts = [m \in Missions |-> {}]
    /\ job_queue \in SeqsUpTo(Missions \cup {Malformed}, MaxQueued)
    /\ results_queue \in SeqsUpTo({Malformed, Incomplete}, 1)
    /\ pushed = Len(job_queue)
    /\ worker = [w \in Workers |-> IdleWorker]
    /\ processor = IdleProcessor(FALSE)
    /\ redis_up = TRUE
    /\ outages = 0
    /\ dropped = 0
    /\ ds = << >>
    /\ stats = NoStats
    /\ layers = AllLayersOk
    /\ forcing = NoForcing
    /\ PureIdle

\* The steps of one process_job call, from the blpop that returns the job
\* to the return into the loop; and the same for process_results.
ProcessJobStep(w) ==
    \/ Dequeue(w)
    \/ MarkProcessing(w)
    \/ Simulate(w)
    \/ Upload(w)
    \/ MarkCompleted(w)
    \/ EnqueueResults(w)
    \/ MarkFailed(w)
    \/ LoopAgain(w)

ProcessResultsStep ==
    \/ PDequeue
    \/ PAnalyse
    \/ PUpload
    \/ PUpdate
    \/ PLoopAgain

\* The two loops with usable and unusable payloads waiting, Redis reachable.
NextRun ==
    \/ \E w \in Workers : ProcessJobStep(w)
    \/ \E w \in Workers : DropMalformed(w)
    \/ ProcessResultsStep
    \/ PDropMalformed

SpecRun == InitRun /\ [][NextRun]_vars

\* ------------------------------------------------ polling loops: an outage
MaxWaiting == 1                  \* jobs on drift_jobs when the outage spec starts

\* Up to MaxWaiting jobs of one mission wait on drift_jobs, Redis reachable.
InitOutage ==
    /\ missions = [m \in Missions |->
                     [status |-> STATUS_QUEUED, error_message |-> NULL,
                      completed_at |-> NULL]]
    /\ mission_results = [m \in Missions |-> << >>]
    /\ artifacts = [m \in Missions |-> {}]
    /\ job_queue \in SeqsUpTo({"m1"}, MaxWaiting)
    /\ results_queue = << >>
    /\ pushed = Len(job_queue)
    /\ worker = [w \in Workers |-> IdleWorker]
    /\ processor = IdleProcessor(FALSE)
    /\ redis_up = TRUE
    /\ outages = 0
    /\ dropped = 0
    /\ ds = << >>
    /\ stats = NoStats
    /\ layers = AllLayersOk
    /\ forcing = NoForcing
    /\ PureIdle

\* One step of a worker's run loop, and of the processor's.
WorkerLoop(w) ==
    \/ ProcessJobStep(w)
    \/ ConnectionError(w)
    \/ Reconnect(w)

ProcessorLoop ==
    \/ ProcessResultsStep
    \/ PConnectionError
    \/ PReconnect

NextOutage ==
    \/ \E w \in Workers : WorkerLoop(w)
    \/ ProcessorLoop
    \/ RedisDown
    \/ RedisUp

SpecOutage == InitOutage /\ [][NextOutage]_vars

\* Each run loop is a single thread that keeps executing: no loop stops
\* forever at a step it can take. Nothing is assumed of the Redis server.
FairOutage ==
    /\ SpecOutage
    /\ \A w \in Workers : WF_vars(WorkerLoop(w))
    /\ WF_vars(ProcessorLoop)

\* ------------------------------------------- polling loops: an empty list
\* Variant of Timeout in which an empty reply is handled as a lost
\* connection.
Timeout_Error(w) ==
    /\ worker[w].pc = "poll"
    /\ redis_up
    /\ job_queue = << >>
    /\ worker' = [worker EXCEPT ![w].pc = "reconnect"]
    /\ UNCHANGED <<missions, mission_results, artifacts, job_queue,
                   results_queue, pushed, processor>>
    /\ UNCHANGED <<loop_vars, unit_vars>>

\* DriftWorker.run lines 506-508: drift_jobs stayed empty for poll_interval
\* seconds, blpop returns None and the test of line 508 skips the body.
Timeout(w) ==
    /\ worker[w].pc = "poll"
    /\ redis_up
    /\ job_queue = << >>
    /\ worker' = [worker EXCEPT ![w].pc = "timed_out"]
    /\ UNCHANGED <<missions, mission_results, artifacts, job_queue,
                   results_queue, pushed, processor>>
    /\ UNCHANGED <<loop_vars, unit_vars>>

\* ResultsProcessor.run lines 511-513
PTimeout ==
    /\ processor.pc = "poll"
    /\ redis_up
    /\ results_queue = << >>
    /\ processor' = [processor EXCEPT !.pc = "timed_out"]
    /\ UNCHANGED <<missions, mission_results, artifacts, job_queue,
                   results_queue, pushed, worker>>
    /\ UNCHANGED <<loop_vars, unit_vars>>

\* The two loops with jobs of one mission waiting and Redis reachable: a
\* loop that finds its list empty waits out the timeout.
NextPoll ==
    \/ \E w \in Workers : ProcessJobStep(w)
    \/ \E w \in Workers : Timeout(w)
    \/ ProcessResultsStep
    \/ PTimeout

SpecPoll == InitOutage /\ [][NextPoll]_vars

\* ------------------------------------- thresholds and search-area regions
\* Nothing queued, nothing in hand, Redis reachable: the surroundings of the
\* computations studied on their own.
IdlePipeline ==
    /\ missions = [m \in Missions |->
                     [status |-> STATUS_QUEUED, error_message |-> NULL,
                      completed_at |-> NULL]]
    /\ mission_results = [m \in Missions |-> << >>]
    /\ artifacts = [m \in Missions |-> {}]
    /\ job_queue = << >>
    /\ results_queue = << >>
    /\ pushed = 0
    /\ worker = [w \in Workers |-> IdleWorker]
    /\ processor = IdleProcessor(FALSE)
    /\ redis_up = TRUE
    /\ outages = 0
    /\ dropped = 0

\* density_smooth after line 142: no cell is negative and the cells sum to 1.
\* A grid holds the numerators of its cells over their common total.
Grids == {g \in [Cells -> 0..MaxCell] : \E c \in Cells : g[c] > 0}

\* Position of a cell in C (row-major) order, as flatten() and label() scan.
ScanIndex(c) == (c[1] - 1) * LonBins + c[2]

\* line 152: density_smooth.flatten()
flatten(g) ==
    [i \in 1..(LatBins * LonBins) |-> g[CHOOSE c \in Cells : ScanIndex(c) = i]]

\* Variant of sorted_density without the [::-1] reversal: ascending order.
sorted_density_Ascending(flat) ==
    [i \in DOMAIN flat |->
        CHOOSE v \in {flat[j] : j \in DOMAIN flat} :
            /\ Cardinality({j \in DOMAIN flat : flat[j] < v}) < i
            /\ i <= Cardinality({j \in DOMAIN flat : flat[j] <= v})]

\* line 153: np.sort(flat_density)[::-1], the cells in descending order
sorted_density(flat) ==
    [i \in DOMAIN flat |->
        CHOOSE v \in {flat[j] : j \in DOMAIN flat} :
            /\ Cardinality({j \in DOMAIN flat : flat[j] > v}) < i
            /\ i <= Cardinality({j \in DOMAIN flat : flat[j] >= v})]

\* line 154: np.cumsum
RECURSIVE cumsum(_)
cumsum(sorted) ==
    IF sorted = << >> THEN << >>
    ELSE LET n == Len(sorted)
             before == cumsum(SubSeq(sorted, 1, n - 1))
         IN Append(before, (IF n = 1 THEN 0 ELSE before[n - 1]) + sorted[n])

\* Variant of threshold that takes the first cell strictly past P percent.
threshold_Strict(flat, P) ==
    LET sorted == sorted_density(flat)
        cum == cumsum(sorted)
        total == cum[Len(cum)]
        hits == {i \in DOMAIN cum : cum[i] * 100 > P * total}
    IN IF hits = {} THEN sorted[Len(sorted)]
       ELSE sorted[CHOOSE i \in hits : \A j \in hits : i <= j]

\* lines 157-158: sorted_density[np.where(cumsum >= P/100)[0][0]]; with the
\* grid as numerators, cumsum >= P/100 reads cum * 100 >= P * total.
threshold(flat, P) ==
    LET sorted == sorted_density(flat)
        cum == cumsum(sorted)
        total == cum[Len(cum)]
        hits == {i \in DOMAIN cum : cum[i] * 100 >= P * total}
    IN sorted[CHOOSE i \in hits : \A j \in hits : i <= j]

\* _create_search_area_polygon line 175: mask = density >= threshold
contour_mask(g, t) == {c \in Cells : g[c] >= t}

\* ndimage.label's default structuring element: cells that share an edge.
Adjacent(a, b) ==
    \/ a[1] = b[1] /\ (a[2] - b[2] = 1 \/ b[2] - a[2] = 1)
    \/ a[2] = b[2] /\ (a[1] - b[1] = 1 \/ b[1] - a[1] = 1)

\* line 179: ndimage.label(mask), the connected regions numbered in the order
\* a row-major scan meets their first cell; label[k] is the k-th region.
RECURSIVE Grow(_, _)
Grow(region, mask) ==
    LET more == region \cup {c \in mask : \E d \in region : Adjacent(c, d)}
    IN IF more = region THEN region ELSE Grow(more, mask)

RECURSIVE label(_)
label(mask) ==
    IF mask = {} THEN << >>
    ELSE LET first == CHOOSE c \in mask :
                         \A d \in mask : ScanIndex(c) <= ScanIndex(d)
             region == Grow({first}, mask)
         IN <<region>> \o label(mask \ region)

\* line 185: ndimage.sum(mask, labeled, range(1, num_features + 1))
sizes(labeled) == [k \in DOMAIN labeled |-> Cardinality(labeled[k])]

\* Variant of argmax that returns the last index holding the maximum.
argmax_Last(a) ==
    CHOOSE k \in DOMAIN a :
        \A j \in DOMAIN a : a[j] <= a[k] /\ (j > k => a[j] < a[k])

\* line 186: np.argmax returns the first index holding the maximum
argmax(a) ==
    CHOOSE k \in DOMAIN a :
        \A j \in DOMAIN a : a[j] <= a[k] /\ (j < k => a[j] < a[k])

\* lines 177-187: the cells of the largest region of the mask
largest_mask(g, t) ==
    LET labeled == label(contour_mask(g, t))
    IN labeled[argmax(sizes(labeled))]

\* lines 190-194: measure.find_contours(largest_mask, 0.5) follows the places
\* where the array changes value between neighbouring cells; it returns no
\* contour, and the function None, when the region fills the whole grid.
has_contour(region) == region # Cells

\* _create_search_area_polygon lines 175-194: whether a polygon is returned.
\* None is returned when the mask has no component and when the largest
\* component has no contour.
_create_search_area_polygon(g, t) ==
    IF label(contour_mask(g, t)) = << >> THEN FALSE
    ELSE has_contour(largest_mask(g, t))

\* Variant of search_area_column that serialises whatever it is given:
\* json.dumps(None) is the text "null".
search_area_column_Dumps(polygon) == IF polygon THEN "json" ELSE "null"

\* process_results lines 462-463: json.dumps(search_area) if search_area
\* else None, the parameter bound to a search_area_*_geom column.
search_area_column(polygon) == IF polygon THEN "json" ELSE NULL

\* process_results lines 403-414 for one density grid: the two thresholds of
\* _calculate_density_and_contours and the two calls of
\* _create_search_area_polygon; and the two parameters lines 462-463 make of
\* their results for the UPDATE.
CreateSearchAreas ==
    /\ ~contours.done
    /\ LET flat == flatten(density)
           t50 == threshold(flat, 50)
           t90 == threshold(flat, 90)
           labeled_50 == label(contour_mask(density, t50))
           r50 == largest_mask(density, t50)
           r90 == largest_mask(density, t90)
       IN contours' =
            [done |-> TRUE, threshold_50 |-> t50, threshold_90 |-> t90,
             region_50 |-> r50, region_90 |-> r90,
             tied_50 |-> \E k \in DOMAIN labeled_50 :
                            /\ labeled_50[k] # r50
                            /\ Cardinality(labeled_50[k]) = Cardinality(r50),
             polygon_50 |-> _create_search_area_polygon(density, t50),
             polygon_90 |-> _create_search_area_polygon(density, t90),
             search_area_50_geom |->
                 search_area_column(_create_search_area_polygon(density, t50)),
             search_area_90_geom |->
                 search_area_column(_create_search_area_polygon(density, t90))]
    /\ UNCHANGED <<missions, mission_results, artifacts, job_queue,
                   results_queue, pushed, worker, processor>>
    /\ UNCHANGED <<loop_vars, ds, stats, layers, forcing>>
    /\ UNCHANGED <<density, centroid, tracks, geojson, env, ctor, req, verdict>>

InitContours ==
    /\ IdlePipeline
    /\ ds = << >>
    /\ stats = NoStats
    /\ layers = AllLayersOk
    /\ forcing = NoForcing
    /\ density \in Grids
    /\ contours = NoContours
    /\ centroid = NoCentroid
    /\ tracks = << >>
    /\ geojson = NoGeojson
    /\ env = NoEnv
    /\ ctor = NoCtor
    /\ req = NoReq
    /\ verdict = NULL

SpecContours == InitContours /\ [][CreateSearchAreas]_vars

\* ------------------------------------------------ density grid and centroid
\* Lengths are kept exact by scaling: along an axis with n bins every edge
\* and centre is held as 2n times its value in degrees.

\* lines 133-134: np.linspace(v.min() - 0.5, v.max() + 0.5, bins + 1)
bin_edges(values, n) ==
    LET lo == CHOOSE x \in values : \A y \in values : x <= y
        hi == CHOOSE x \in values : \A y \in values : y <= x
    IN [k \in 1..(n + 1) |-> 2 * n * lo - n + 2 * (k - 1) * (hi - lo + 1)]

\* The bin np.histogram2d puts a value in: the last edge at or below it.
bin_of(x, edges, n) ==
    CHOOSE k \in 1..n :
        /\ edges[k] <= 2 * n * x
        /\ \A j \in 1..n : edges[j] <= 2 * n * x => j <= k

\* lines 136-141: np.histogram2d(lons, lats, bins) transposed, rows are
\* latitude bins and columns longitude bins.
histogram2d(valid, lon_edges, lat_edges) ==
    [c \in Cells |->
        Cardinality({i \in DOMAIN valid :
                        /\ bin_of(valid[i].lat[1], lat_edges, LatBins) = c[1]
                        /\ bin_of(valid[i].lon[1], lon_edges, LonBins) = c[2]})]

\* Index an out-of-range neighbour is read from in scipy's default "reflect"
\* mode, which repeats the edge cell.
reflect(i, n) == IF i < 1 THEN 1 - i ELSE IF i > n THEN 2 * n + 1 - i ELSE i

\* line 141: gaussian_filter(density.T, sigma=2), a separable symmetric
\* kernel of positive weights applied along each axis; the model keeps its
\* three central taps, in the proportion 1 : 2 : 1.
gaussian_filter(h) ==
    LET rows == [c \in Cells |->
                    h[<<reflect(c[1] - 1, LatBins), c[2]>>] + 2 * h[c]
                      + h[<<reflect(c[1] + 1, LatBins), c[2]>>]]
    IN [c \in Cells |->
          rows[<<c[1], reflect(c[2] - 1, LonBins)>>] + 2 * rows[c]
            + rows[<<c[1], reflect(c[2] + 1, LonBins)>>]]

\* Variant of bin_centers that forgets to halve the sum of the two edges.
bin_centers_Sum(edges) ==
    [k \in 1..(Len(edges) - 1) |-> edges[k] + edges[k + 1]]

\* lines 145-146: (edges[:-1] + edges[1:]) / 2
bin_centers(edges) ==
    [k \in 1..(Len(edges) - 1) |-> (edges[k] + edges[k + 1]) \div 2]

RECURSIVE SumSeq(_)
SumSeq(q) == IF q = << >> THEN 0 ELSE Head(q) + SumSeq(Tail(q))

\* lines 148-149: np.average(centers, weights) is weighted / weight, with
\* weighted the sum of centre times weight; both parts are kept.
weighted_sum(centers, weights) ==
    SumSeq([k \in DOMAIN centers |-> centers[k] * weights[k]])

\* _calculate_density_and_contours lines 120-149 on the last time step of ds.
CalculateCentroid ==
    /\ ~centroid.done
    /\ LET valid == valid_positions(ds)
       IN IF Len(valid) = 0
            THEN centroid' = [NoCentroid EXCEPT !.done = TRUE]
            ELSE LET lon_edges == bin_edges({valid[i].lon[1] : i \in DOMAIN valid}, LonBins)
                     lat_edges == bin_edges({valid[i].lat[1] : i \in DOMAIN valid}, LatBins)
                     smooth == gaussian_filter(histogram2d(valid, lon_edges, lat_edges))
                     by_lon == [k \in 1..LonBins |->
                                  SumSeq([r \in 1..LatBins |-> smooth[<<r, k>>]])]
                     by_lat == [r \in 1..LatBins |->
                                  SumSeq([k \in 1..LonBins |-> smooth[<<r, k>>]])]
                 IN centroid' =
                      [done |-> TRUE, lon_edges |-> lon_edges, lat_edges |-> lat_edges,
                       lon_weighted |-> weighted_sum(bin_centers(lon_edges), by_lon),
                       lat_weighted |-> weighted_sum(bin_centers(lat_edges), by_lat),
                       weight |-> SumSeq(by_lon)]
    /\ UNCHANGED <<missions, mission_results, artifacts, job_queue,
                   results_queue, pushed, worker, processor>>
    /\ UNCHANGED <<loop_vars, ds, stats, layers, forcing>>
    /\ UNCHANGED <<density, contours, tracks, geojson, env, ctor, req, verdict>>

InitCentroid ==
    /\ IdlePipeline
    /\ ds \in Datasets
    /\ stats = NoStats
    /\ layers = AllLayersOk
    /\ forcing = NoForcing
    /\ PureIdle

SpecCentroid == InitCentroid /\ [][CalculateCentroid]_vars

\* ------------------------------------------- GeoJSON documents and rings
MaxSteps == 2                    \* time steps of a trajectory dataset
MaxContour == 3                  \* points of a traced boundary

\* min(100, num_particles) of line 223: the model samples at most 2.
SampleCap == 2

\* The positions a particle can have at time step s: defined, or undefined
\* in one coordinate. Every time step has coordinates of its own, so that the
\* order and the origin of a written point can be told.
TrackPoints(s) ==
    {[lon |-> <<2 * s>>, lat |-> <<2 * s + 1>>],
     [lon |-> NaN, lat |-> <<2 * s + 1>>],
     [lon |-> <<2 * s>>, lat |-> NaN]}

\* ds['lon'], ds['lat'] with dims (trajectory, time); one particle more than
\* are sampled can be present.
Tracks ==
    LET Track[t \in 0..MaxSteps] ==
            IF t = 0 THEN {<< >>}
            ELSE {Append(q, x) : q \in Track[t - 1], x \in TrackPoints(t)}
    IN UNION {[1..n -> Track[t]] : n \in 1..(SampleCap + 1), t \in 1..MaxSteps}

\* The search-area levels of process_results lines 409-414.
Levels == {50, 90}

\* Variant of sample_indices that takes the first sample_size particles.
sample_indices_First(num_particles) ==
    LET sample_size == IF num_particles < SampleCap THEN num_particles ELSE SampleCap
    IN [i \in 1..sample_size |-> i - 1]

\* lines 222-224: np.linspace(0, num_particles - 1, sample_size, dtype=int)
sample_indices(num_particles) ==
    LET sample_size == IF num_particles < SampleCap THEN num_particles ELSE SampleCap
    IN [i \in 1..sample_size |->
          IF sample_size = 1 THEN 0
          ELSE ((i - 1) * (num_particles - 1)) \div (sample_size - 1)]

\* lines 231-238: the time steps of one particle with both coordinates
\* defined, as [lon, lat] pairs
line_coordinates(track) ==
    LET kept == SelectSeq(track, LAMBDA p : ~(isnan(p.lon) \/ isnan(p.lat)))
    IN [i \in DOMAIN kept |-> <<kept[i].lon[1], kept[i].lat[1]>>]

\* lines 226-250: one LineString feature per sampled particle that has a
\* valid time step
features(tr) ==
    LET idx == sample_indices(Len(tr))
        all == [i \in DOMAIN idx |->
                  [type |-> "LineString", trajectory_id |-> idx[i],
                   coordinates |-> line_coordinates(tr[idx[i] + 1])]]
    IN SelectSeq(all, LAMBDA f : f.coordinates # << >>)

\* Punctuation of the written text, told apart from the numbers (all >= 0).
LineOpen == 0 - 1
PolygonOpen == 0 - 2
Close == 0 - 3

RECURSIVE FlatPairs(_)
FlatPairs(points) ==
    IF points = << >> THEN << >>
    ELSE <<Head(points)[1], Head(points)[2]>> \o FlatPairs(Tail(points))

\* lines 252-257: json.dumps of the FeatureCollection, feature after feature:
\* the geometry type, the trajectory_id, the coordinates, the closing bracket.
RECURSIVE dumps(_)
dumps(fs) ==
    IF fs = << >> THEN << >>
    ELSE <<IF Head(fs).type = "Polygon" THEN PolygonOpen ELSE LineOpen,
           Head(fs).trajectory_id>>
         \o FlatPairs(Head(fs).coordinates) \o <<Close>> \o dumps(Tail(fs))

RECURSIVE Pairs(_)
Pairs(numbers) ==
    IF Len(numbers) < 2 THEN << >>
    ELSE <<<<numbers[1], numbers[2]>>>> \o Pairs(SubSeq(numbers, 3, Len(numbers)))

\* json.loads of a written document: the features with their type, id and
\* coordinate pairs.
RECURSIVE loads(_)
loads(text) ==
    IF text = << >> THEN << >>
    ELSE LET end == CHOOSE i \in DOMAIN text :
                       text[i] = Close /\ \A j \in 1..(i - 1) : text[j] # Close
         IN <<[type |-> IF text[1] = PolygonOpen THEN "Polygon" ELSE "LineString",
               trajectory_id |-> text[2],
               coordinates |-> Pairs(SubSeq(text, 3, end - 1))]>>
            \o loads(SubSeq(text, end + 1, Len(text)))

\* Variant of close_ring that never appends the first vertex.
close_ring_Open(coordinates) == coordinates

\* _create_search_area_polygon lines 206-208
close_ring(coordinates) ==
    IF coordinates[1] # coordinates[Len(coordinates)]
      THEN Append(coordinates, coordinates[1])
      ELSE coordinates

\* lines 196-213: the first contour mapped to [lon, lat] through the bin
\* centres (a centre is modelled by the index of its bin), closed, and
\* wrapped as the only ring of a Polygon.
polygon_rings(contour) ==
    <<close_ring([i \in DOMAIN contour |-> <<contour[i][2], contour[i][1]>>])>>

\* json.dumps(search_area) of lines 462-463: ring after ring
RECURSIVE dumps_polygon(_)
dumps_polygon(rings) ==
    IF rings = << >> THEN << >>
    ELSE <<PolygonOpen>> \o FlatPairs(Head(rings)) \o <<Close>>
         \o dumps_polygon(Tail(rings))

RECURSIVE loads_polygon(_)
loads_polygon(text) ==
    IF text = << >> THEN << >>
    ELSE LET end == CHOOSE i \in DOMAIN text :
                       text[i] = Close /\ \A j \in 1..(i - 1) : text[j] # Close
         IN <<Pairs(SubSeq(text, 2, end - 1))>>
            \o loads_polygon(SubSeq(text, end + 1, Len(text)))

\* process_results lines 416-421: the FeatureCollection written to
\* trajectories.geojson.
GenerateGeojson ==
    /\ ~geojson.done
    /\ tracks # << >>
    /\ geojson' = [geojson EXCEPT !.done = TRUE, !.document = dumps(features(tracks))]
    /\ UNCHANGED <<missions, mission_results, artifacts, job_queue,
                   results_queue, pushed, worker, processor>>
    /\ UNCHANGED <<loop_vars, ds, stats, layers, forcing>>
    /\ UNCHANGED <<density, contours, centroid, tracks, env, ctor, req, verdict>>

\* _create_search_area_polygon lines 196-215 and the json.dumps of line 462.
CreatePolygon ==
    /\ ~geojson.done
    /\ geojson.contour # << >>
    /\ geojson' = [geojson EXCEPT !.done = TRUE,
                                  !.polygon = dumps_polygon(polygon_rings(geojson.contour))]
    /\ UNCHANGED <<missions, mission_results, artifacts, job_queue,
                   results_queue, pushed, worker, processor>>
    /\ UNCHANGED <<loop_vars, ds, stats, layers, forcing>>
    /\ UNCHANGED <<density, contours, centroid, tracks, env, ctor, req, verdict>>

\* Either a dataset whose trajectories are to be written, with the levels
\* for which a polygon was made, or a traced boundary to be made a polygon.
InitGeojson ==
    /\ IdlePipeline
    /\ ds = << >>
    /\ stats = NoStats
    /\ layers = AllLayersOk
    /\ forcing = NoForcing
    /\ density = NoDensity
    /\ contours = NoContours
    /\ centroid = NoCentroid
    /\ \/ /\ tracks \in Tracks
          /\ \E a \in SUBSET Levels : geojson = [NoGeojson EXCEPT !.areas = a]
       \/ /\ tracks = << >>
          /\ \E c \in UNION {[1..n -> Cells] : n \in 1..MaxContour} :
                geojson = [NoGeojson EXCEPT !.contour = c]
    /\ env = NoEnv
    /\ ctor = NoCtor
    /\ req = NoReq
    /\ verdict = NULL

NextGeojson == GenerateGeojson \/ CreatePolygon

SpecGeojson == InitGeojson /\ [][NextGeojson]_vars

\* ------------------------------------------------- DriftWorker.__init__
\* _validate_config line 99: the variables a worker cannot start without
RequiredVars ==
    {"DATABASE_URL", "REDIS_URL", "S3_ENDPOINT", "S3_ACCESS_KEY", "S3_SECRET_KEY"}

\* __init__ lines 79 and 81: the variables read through int(), with a default
IntVars == {"MAX_CONCURRENT_JOBS", "POLL_INTERVAL"}

\* An environment: a required variable is unset, empty or set; a numeric one
\* is unset, an integer literal or some other text.
Envs ==
    {e \in [RequiredVars \cup IntVars -> {NULL, "", "x", "7", "abc"}] :
        /\ \A v \in RequiredVars : e[v] \in {NULL, "", "x"}
        /\ \A v \in IntVars : e[v] \in {NULL, "7", "abc"}}

MissingError == "Missing required environment variables"
LiteralError == "invalid literal for int() with base 10"

\* Variant of missing_vars that tests the attribute __init__ filled for
\* REDIS_URL, default included, instead of the environment.
missing_vars_Defaulted(e) ==
    {v \in RequiredVars \ {"REDIS_URL"} : ~Truthy(e[v])}

\* _validate_config line 103: [var for var in required_vars if not os.getenv(var)]
missing_vars(e) == {v \in RequiredVars : ~Truthy(e[v])}

\* __init__ lines 74-82: the environment is read; int() raises ValueError on
\* text that is no integer literal.
ReadConfig ==
    /\ ctor.pc = "read"
    /\ ctor' = IF \E v \in IntVars : env[v] = "abc"
                 THEN [ctor EXCEPT !.pc = "raised", !.raised = LiteralError]
                 ELSE [ctor EXCEPT !.pc = "validate"]
    /\ UNCHANGED <<missions, mission_results, artifacts, job_queue,
                   results_queue, pushed, worker, processor>>
    /\ UNCHANGED <<loop_vars, ds, stats, layers, forcing>>
    /\ UNCHANGED <<density, contours, centroid, tracks, geojson, env, req, verdict>>

\* __init__ line 85 and _validate_config lines 97-105
ValidateConfig ==
    /\ ctor.pc = "validate"
    /\ ctor' = IF missing_vars(env) # {}
                 THEN [ctor EXCEPT !.pc = "raised", !.raised = MissingError,
                                   !.named = missing_vars(env)]
                 ELSE [ctor EXCEPT !.pc = "connect"]
    /\ UNCHANGED <<missions, mission_results, artifacts, job_queue,
                   results_queue, pushed, worker, processor>>
    /\ UNCHANGED <<loop_vars, ds, stats, layers, forcing>>
    /\ UNCHANGED <<density, contours, centroid, tracks, geojson, env, req, verdict>>

\* __init__ line 92: _init_connections opens the Redis, database and S3
\* connections, or raises after trying.
InitConnections ==
    /\ ctor.pc = "connect"
    /\ \E ok \in BOOLEAN :
         ctor' = [ctor EXCEPT !.pc = IF ok THEN "ready" ELSE "raised",
                              !.raised = IF ok THEN NULL ELSE "connection failed",
                              !.connected = TRUE]
    /\ UNCHANGED <<missions, mission_results, artifacts, job_queue,
                   results_queue, pushed, worker, processor>>
    /\ UNCHANGED <<loop_vars, ds, stats, layers, forcing>>
    /\ UNCHANGED <<density, contours, centroid, tracks, geojson, env, req, verdict>>

InitConfig ==
    /\ IdlePipeline
    /\ ds = << >>
    /\ stats = NoStats
    /\ layers = AllLayersOk
    /\ forcing = NoForcing
    /\ density = NoDensity
    /\ contours = NoContours
    /\ centroid = NoCentroid
    /\ tracks = << >>
    /\ geojson = NoGeojson
    /\ env \in Envs
    /\ ctor = [NoCtor EXCEPT !.pc = "read"]
    /\ req = NoReq
    /\ verdict = NULL

NextConfig == ReadConfig \/ ValidateConfig \/ InitConnections

SpecConfig == InitConfig /\ [][NextConfig]_vars

\* --------------------------------------------------- DataRequest.validate
\* Latitudes, longitudes and times around the limits validate tests.
Requests ==
    [min_lat : {0 - 91, 0 - 90, 0, 90, 91}, max_lat : {0 - 91, 0 - 90, 0, 90, 91},
     min_lon : {0 - 181, 0 - 180, 0, 180, 181}, max_lon : {0 - 181, 0 - 180, 0, 180, 181},
     start_time : {0, 1}, end_time : {0, 1}]

\* Variant of validate whose first test is min_lat > max_lat.
validate_Strict(r) ==
    IF r.min_lat > r.max_lat THEN "min_lat must be less than max_lat"
    ELSE IF r.min_lon >= r.max_lon THEN "min_lon must be less than max_lon"
    ELSE IF r.min_lat < 0 - 90 \/ r.max_lat > 90
      THEN "Latitude must be between -90 and 90"
    ELSE IF r.min_lon < 0 - 180 \/ r.max_lon > 180
      THEN "Longitude must be between -180 and 180"
    ELSE IF r.start_time >= r.end_time THEN "start_time must be before end_time"
    ELSE "ok"

\* DataRequest.validate lines 38-47: the message of the ValueError raised, or
\* "ok" when it returns.
validate(r) ==
    IF r.min_lat >= r.max_lat THEN "min_lat must be less than max_lat"
    ELSE IF r.min_lon >= r.max_lon THEN "min_lon must be less than max_lon"
    ELSE IF r.min_lat < 0 - 90 \/ r.max_lat > 90
      THEN "Latitude must be between -90 and 90"
    ELSE IF r.min_lon < 0 - 180 \/ r.max_lon > 180
      THEN "Longitude must be between -180 and 180"
    ELSE IF r.start_time >= r.end_time THEN "start_time must be before end_time"
    ELSE "ok"

Validate ==
    /\ verdict = NULL
    /\ verdict' = validate(req)
    /\ UNCHANGED <<missions, mission_results, artifacts, job_queue,
                   results_queue, pushed, worker, processor>>
    /\ UNCHANGED <<loop_vars, ds, stats, layers, forcing>>
    /\ UNCHANGED <<density, contours, centroid, tracks, geojson, env, ctor, req>>

InitValidate ==
    /\ IdlePipeline
    /\ ds = << >>
    /\ stats = NoStats
    /\ layers = AllLayersOk
    /\ forcing = NoForcing
    /\ density = NoDensity
    /\ contours = NoContours
    /\ centroid = NoCentroid
    /\ tracks = << >>
    /\ geojson = NoGeojson
    /\ env = NoEnv
    /\ ctor = NoCtor
    /\ req \in Requests
    /\ verdict = NULL

SpecValidate == InitValidate /\ [][Validate]_vars

\* ------------------------------------ one forcing request and its answer
SPATIAL_BUFFER == 2              \* degrees

\* _download_forcing_data lines 201-239: the bounding box and time window
\* sent for a seed position and a duration, times counted in hours.
forcing_request(latitude, longitude, start_time, duration_hours) ==
    [min_lat |-> latitude - SPATIAL_BUFFER, max_lat |-> latitude + SPATIAL_BUFFER,
     min_lon |-> longitude - SPATIAL_BUFFER, max_lon |-> longitude + SPATIAL_BUFFER,
     start_time |-> start_time, end_time |-> start_time + duration_hours]

\* The keys of the JSON object DataResponse.to_dict makes: the fields of the
\* dataclass, file_paths holding the list _build_response was given.
ResponseFields ==
    {"data_type", "source", "cache_hit", "metadata", "expires_at",
     "file_urls", "file_paths"}

\* _handle_data_request lines 56-80 with get_data: 400 when validate raises,
\* 502 when the aggregator has no dataset for the layer (ExternalSourceError),
\* else 200 with the DataResponse, whose file_paths is never empty.
reply(r, found) ==
    IF validate(r) # "ok" THEN [status_code |-> 400, json |-> {"error"}]
    ELSE IF ~found THEN [status_code |-> 502, json |-> {"error"}]
    ELSE [status_code |-> 200, json |-> ResponseFields]

\* _download_forcing_data lines 245-258: what the worker makes of a reply;
\* data.get('file_path') is None when the object has no such key.
layer_outcome(response) ==
    IF response.status_code # 200 THEN "http_error"
    ELSE IF "file_path" \in response.json THEN "ok"
    ELSE "no_file_path"

\* _download_forcing_data lines 227-272 against the data-service, then the
\* readers of _run_opendrift_simulation: each layer's dataset is found by the
\* aggregator or not; a file that is named downloads and opens.
FetchForcing ==
    /\ verdict # NULL
    /\ ~forcing.configured
    /\ \E found \in [ForcingLayers -> BOOLEAN] :
         /\ layers' = [l \in ForcingLayers |-> layer_outcome(reply(req, found[l]))]
         /\ LET files == _download_forcing_data(layers')
                readers == readers_added(files, layers')
            IN forcing' = [forcing_files |-> files, readers |-> readers,
                           fallback |-> fallback_mode(readers), raised |-> FALSE,
                           configured |-> TRUE]
    /\ UNCHANGED <<missions, mission_results, artifacts, job_queue,
                   results_queue, pushed, worker, processor>>
    /\ UNCHANGED <<loop_vars, ds, stats, pure_vars>>

\* The request of a mission whose seed position and duration satisfy the
\* preconditions: latitude in [-90, 90], longitude in [-180, 180],
\* duration_hours > 0.
InitFetch ==
    /\ IdlePipeline
    /\ ds = << >>
    /\ stats = NoStats
    /\ layers = AllLayersOk
    /\ forcing = NoForcing
    /\ density = NoDensity
    /\ contours = NoContours
    /\ centroid = NoCentroid
    /\ tracks = << >>
    /\ geojson = NoGeojson
    /\ env = NoEnv
    /\ ctor = NoCtor
    /\ \E latitude \in {0 - 90, 0 - 88, 0, 88, 89, 90},
          longitude \in {0 - 180, 0 - 178, 0, 178, 180},
          duration_hours \in {1, 24} :
          req = forcing_request(latitude, longitude, 0, duration_hours)
    /\ verdict = NULL

SpecFetch == InitFetch /\ [][Validate \/ FetchForcing]_vars

\* ================================================================ claims
JobsFor(queue, m) == Len(SelectSeq(queue, LAMBDA j : j = m))

\* A step in which worker w dies inside process_job.
CrashStep(w) ==
    /\ worker[w].pc \notin {"poll", "returned", "reconnect"}
    /\ worker'[w].pc = "poll"

\* C1: a mission's status is completed only if a mission_results row of that
\* mission exists with a non-null centroid.
C1_CompletedHasCentroid ==
    \A m \in Missions :
        missions[m].status = STATUS_COMPLETED =>
            \E i \in DOMAIN mission_results[m] :
                mission_results[m][i].centroid # NULL

\* C2: a mission whose status is failed has a non-null error_message, for
\* every exception process_job can catch.
C2_FailedHasErrorMessage ==
    \A m \in Missions :
        missions[m].status = STATUS_FAILED => missions[m].error_message # NULL

\* C3: no mission holds a non-null error_message together with a
\* MissionResult row or the completed status.
C3_NotBoth ==
    \A m \in Missions :
        ~ /\ missions[m].error_message # NULL
          /\ \/ missions[m].status = STATUS_COMPLETED
             \/ mission_results[m] # << >>

\* C4: status only moves forward along queued -> processing -> {completed,
\* failed}: never from a terminal status to processing or queued, never from
\* processing back to queued.
C4_StatusForward ==
    [][\A m \in Missions :
          /\ missions[m].status \in Terminal =>
                missions'[m].status \notin {STATUS_PROCESSING, STATUS_QUEUED}
          /\ missions[m].status = STATUS_PROCESSING =>
                missions'[m].status # STATUS_QUEUED]_vars

\* C5: process_job entered for a mission that is already completed or failed
\* is a no-op: it returns without going on to the Simulation Engine, the raw
\* upload or the ResultsJob push.
C5_TerminalRedeliveryNoOp ==
    [][\A w \in Workers :
          ( /\ worker[w].pc = "mark_processing"
            /\ missions[worker[w].mission_id].status \in Terminal
            /\ worker'[w] # worker[w] )
          => /\ worker'[w].pc \in {"returned", "poll"}
             /\ missions' = missions]_vars

\* C6: when process_job has returned, the mission's stored status is
\* completed or failed, never still processing.
C6_ReturnedTerminal ==
    \A w \in Workers :
        worker[w].pc = "returned" =>
            missions[worker[w].mission_id].status \in Terminal

\* C7: a ResultsJob for m is on the results queue, or about to be pushed,
\* only while m's raw artifact is in the Artifact Store; a delivery whose
\* upload failed has pushed nothing.
C7_EnqueueAfterUpload ==
    /\ \A i \in DOMAIN results_queue :
          RawArtifact \in artifacts[results_queue[i]]
    /\ \A w \in Workers :
          /\ worker[w].pc \in {"mark_completed", "enqueue"} =>
                RawArtifact \in artifacts[worker[w].mission_id]
          /\ worker[w].raised_by = "upload" => ~worker[w].enqueued

C7_Witness ==
    /\ \E i \in DOMAIN results_queue :
          RawArtifact \in artifacts[results_queue[i]]
    /\ \E w \in Workers :
          /\ worker[w].pc = "returned"
          /\ worker[w].raised_by = "upload"
          /\ RawArtifact \notin artifacts[worker[w].mission_id]
          /\ JobsFor(results_queue, worker[w].mission_id) = 0

\* C8: a worker that crashes after dequeuing a MissionJob and before a
\* terminal status is written has its job put back on the queue.
C8_CrashRedelivers ==
    [][\A w \in Workers :
          ( /\ CrashStep(w)
            /\ missions[worker[w].mission_id].status \notin Terminal )
          => JobsFor(job_queue', worker[w].mission_id)
                > JobsFor(job_queue, worker[w].mission_id)]_vars

\* C9: when the Simulation Engine raised, process_job returns with the
\* mission failed, the exception's message stored verbatim as error_message
\* and no ResultsJob pushed.
C9_EngineFailure ==
    \A w \in Workers :
        (worker[w].pc = "returned" /\ worker[w].raised_by = "engine") =>
            /\ worker[w].result = STATUS_FAILED
            /\ ~worker[w].enqueued
            /\ missions[worker[w].mission_id].status = STATUS_FAILED
            /\ missions[worker[w].mission_id].error_message = worker[w].error_msg

\* C10: whatever the outcome of a Mission Store write, process_job goes on to
\* the step that follows it (the simulation after mark_processing, the
\* ResultsJob push after mark_completed, the return after mark_failed) and
\* the Artifact Store keeps what it holds.
C10_StatusWriteNeverAborts ==
    [][\A w \in Workers :
          ( /\ worker[w].pc \in {"mark_processing", "mark_completed", "except"}
            /\ worker'[w] # worker[w]
            /\ ~CrashStep(w) )
          => /\ worker'[w].pc =
                   (CASE worker[w].pc = "mark_processing" -> "simulate"
                      [] worker[w].pc = "mark_completed" -> "enqueue"
                      [] worker[w].pc = "except" -> "returned")
             /\ artifacts' = artifacts]_vars

C10_Witness ==
    \E w \in Workers :
        /\ worker[w].pc = "returned"
        /\ worker[w].result = STATUS_COMPLETED
        /\ worker[w].write_failed
        /\ worker[w].enqueued
        /\ RawArtifact \in artifacts[worker[w].mission_id]
        /\ JobsFor(results_queue, worker[w].mission_id) > 0
        /\ missions[worker[w].mission_id].status # STATUS_COMPLETED

\* C11: when no particle of the dataset has a defined final position,
\* process_results fails with the "no valid particles" error and the
\* mission's status in the Mission Store is failed.
C11_NoValidParticlesFailsMission ==
    (processor.pc = "returned" /\ processor.analysis = "no_valid_particles") =>
        /\ processor.error = NoValidParticles
        /\ missions[processor.mission_id].status = STATUS_FAILED

\* C12: a run of process_results whose dataset has no valid final position
\* raises straight away: it uploads no derived artifact and leaves the
\* Artifact Store and the mission_results table as they were.
C12_NoValidParticlesPublishesNothing ==
    [][(processor'.analysis = "no_valid_particles" /\ processor' # processor) =>
          /\ processor'.pc \in {"returned", "poll"}
          /\ processor'.uploaded = 0
          /\ artifacts' = artifacts
          /\ mission_results' = mission_results]_vars

C12_Witness ==
    /\ processor.pc = "returned"
    /\ processor.analysis = "no_valid_particles"
    /\ processor.error = NoValidParticles
    /\ mission_results[processor.mission_id] # << >>
    /\ \A i \in DOMAIN mission_results[processor.mission_id] :
          mission_results[processor.mission_id][i].centroid = NULL
    /\ artifacts[processor.mission_id] = {RawArtifact}

\* C13: when a derived-artifact upload failed after another had succeeded,
\* the mission is not left completed without any indication: the result row
\* records the gap (no retry of the missing artifact exists in the code).
C13_PartialPublishIsRecorded ==
    ( /\ processor.pc = "returned"
      /\ processor.error = PublishError
      /\ processor.uploaded > 0 ) =>
        \/ missions[processor.mission_id].status # STATUS_COMPLETED
        \/ \E i \in DOMAIN mission_results[processor.mission_id] :
              mission_results[processor.mission_id][i].products # NULL

\* C15: an Artifact Store failure during the raw-artifact upload is never
\* written into mission state: no mission carries the upload error as its
\* error_message, and the delivery it hit does not leave the mission failed.
C15_OutageNotInMissionState ==
    /\ \A m \in Missions : missions[m].error_message # UploadError
    /\ \A w \in Workers :
          (worker[w].pc = "returned" /\ worker[w].raised_by = "upload") =>
              missions[worker[w].mission_id].status # STATUS_FAILED

\* C18: a step in which a worker enters process_job removes exactly the
\* entry it was handed from the queue, and no other worker enters
\* process_job in that step: one queue entry, one worker.
C18_OneWorkerPerEntry ==
    [][\A w \in Workers :
          (worker[w].pc = "poll" /\ worker'[w].pc = "mark_processing") =>
              /\ job_queue # << >>
              /\ worker'[w].mission_id = Head(job_queue)
              /\ job_queue' = Tail(job_queue)
              /\ \A v \in Workers \ {w} : worker'[v] = worker[v]]_vars

C18_Witness ==
    /\ job_queue = << >>
    /\ pushed = 2
    /\ \A w \in Workers : worker[w].pc = "simulate"
    /\ \A w, v \in Workers : worker[w].mission_id = worker[v].mission_id

\* C19: the Mission Store holds at most one mission_results row per mission.
C19_OneResultRowPerMission ==
    \A m \in Missions : Len(mission_results[m]) <= 1

\* C20: for every dataset that process_results accepts, the stored
\* stranded_count plus the number of valid final positions equals the
\* particle count, also when a final latitude is undefined and the longitude
\* is defined.
C20_StrandedPlusValidIsTotal ==
    stats.analysis = "ok" =>
        stats.stranded_count + stats.valid = stats.num_particles

\* C14: whatever subset of the forcing layers is unavailable, configuring the
\* engine raises nothing, and the constant-condition fallback is set exactly
\* when at least one layer is missing.
C14_FallbackWheneverLayerMissing ==
    forcing.configured =>
        /\ ~forcing.raised
        /\ forcing.fallback <=> (\E l \in ForcingLayers : layers[l] # "ok")

\* A step of the outage handling: the server goes away or comes back, a
\* polling loop sees the connection error, or a loop reconnects.
OutageStep ==
    \/ redis_up' # redis_up
    \/ \E w \in Workers :
          /\ worker'[w].pc # worker[w].pc
          /\ "reconnect" \in {worker[w].pc, worker'[w].pc}
    \/ /\ processor'.pc # processor.pc
       /\ "reconnect" \in {processor.pc, processor'.pc}

\* C16: a polling loop that hit a connection error reconnects and polls
\* again; once the queue server is reachable for good, every payload waiting
\* on either list is eventually dequeued; and no step of the outage handling
\* changes a mission row.
C16_ReconnectAndResume ==
    /\ \A w \in Workers : (worker[w].pc = "reconnect") ~> (worker[w].pc = "poll")
    /\ (processor.pc = "reconnect") ~> (processor.pc = "poll")
    /\ (redis_up /\ outages = MaxOutages /\ job_queue # << >>)
          ~> (job_queue = << >>)
    /\ (redis_up /\ outages = MaxOutages /\ results_queue # << >>)
          ~> (results_queue = << >>)
    /\ [][OutageStep => missions' = missions]_vars

\* A worker and the processor wait to reconnect after a connection error,
\* the server is reachable again and a job is waiting.
C16_Witness ==
    /\ redis_up
    /\ outages > 0
    /\ \E w \in Workers : worker[w].pc = "reconnect"
    /\ processor.pc = "reconnect"
    /\ job_queue # << >>

\* Number of payloads on a list that are no usable job.
RECURSIVE Unusable(_)
Unusable(queue) ==
    IF queue = << >> THEN 0
    ELSE (IF Head(queue) \in Missions THEN 0 ELSE 1) + Unusable(Tail(queue))

\* C17: a step that rejects a payload removes exactly the head of one list
\* and leaves the other list, the mission rows, the result rows, the stored
\* artifacts and every loop's position as they were (the loop polls again);
\* and no step ever puts an unusable payload on a list.
C17_MalformedDroppedOnce ==
    [][/\ Unusable(job_queue') + Unusable(results_queue')
             <= Unusable(job_queue) + Unusable(results_queue)
       /\ (dropped' # dropped) =>
             /\ dropped' = dropped + 1
             /\ \/ /\ job_queue # << >>
                   /\ job_queue' = Tail(job_queue)
                   /\ results_queue' = results_queue
                \/ /\ results_queue # << >>
                   /\ results_queue' = Tail(results_queue)
                   /\ job_queue' = job_queue
             /\ Unusable(job_queue') + Unusable(results_queue')
                   = Unusable(job_queue) + Unusable(results_queue) - 1
             /\ UNCHANGED <<missions, mission_results, artifacts, worker,
                            processor>>]_vars

\* Both loops rejected a payload and a worker went on to the job queued
\* behind the rejected one.
C17_Witness ==
    /\ dropped >= 2
    /\ job_queue = << >>
    /\ results_queue = << >>
    /\ \E w \in Workers : worker[w].pc = "simulate"
    /\ \A w \in Workers : worker[w].pc \in {"simulate", "poll"}

\* Total weight of a set of cells of the current grid.
RECURSIVE Mass(_)
Mass(cells) ==
    IF cells = {} THEN 0
    ELSE LET c == CHOOSE c \in cells : TRUE IN density[c] + Mass(cells \ {c})

\* The regions of a mask: the maximal sets of cells joined edge to edge.
Regions(mask) == {Grow({c}, mask) : c \in mask}

\* First cell of a region in scan order.
FirstCell(region) == CHOOSE c \in region : \A d \in region : ScanIndex(c) <= ScanIndex(d)

\* C21: the 90% threshold is at most the 50% threshold, so the cells selected
\* for 90% include those selected for 50% and weigh at least as much, and
\* when both polygons exist the 90% region has at least as many cells as the
\* 50% region.
C21_ThresholdsMonotone ==
    contours.done =>
        LET m50 == contour_mask(density, contours.threshold_50)
            m90 == contour_mask(density, contours.threshold_90)
        IN /\ contours.threshold_90 <= contours.threshold_50
           /\ m50 \subseteq m90
           /\ Mass(m90) >= Mass(m50)
           /\ (contours.polygon_50 /\ contours.polygon_90) =>
                 Cardinality(contours.region_90) >= Cardinality(contours.region_50)

\* Both polygons exist and the 90% region is strictly larger.
C21_Witness ==
    /\ contours.done
    /\ contours.polygon_50
    /\ contours.polygon_90
    /\ contours.threshold_90 < contours.threshold_50
    /\ Cardinality(contours.region_90) > Cardinality(contours.region_50)

\* C29: for P in {50, 90} the cells at or above the threshold hold at least
\* P% of the total weight, the cells strictly above it hold less than P%, and
\* the threshold is the weight of a cell of the grid.
C29_ThresholdIsCrossingCell ==
    contours.done =>
        \A P \in {50, 90} :
            LET t == IF P = 50 THEN contours.threshold_50 ELSE contours.threshold_90
            IN /\ \E c \in Cells : density[c] = t
               /\ Mass({c \in Cells : density[c] >= t}) * 100 >= P * Mass(Cells)
               /\ Mass({c \in Cells : density[c] > t}) * 100 < P * Mass(Cells)

\* The cumulative sum meets 50% exactly at a cell, and that cell is included.
C29_Witness ==
    /\ contours.done
    /\ Mass({c \in Cells : density[c] >= contours.threshold_50}) * 100 = 50 * Mass(Cells)
    /\ contours.threshold_50 > contours.threshold_90

\* C30: the traced region is a region of the mask with the most cells, and
\* among the regions with that many cells it is the one a row-major scan
\* meets first.
C30_LargestRegionFirstFound ==
    contours.done =>
        LET regions == Regions(contour_mask(density, contours.threshold_50))
        IN /\ contours.region_50 \in regions
           /\ \A r \in regions :
                 /\ Cardinality(r) <= Cardinality(contours.region_50)
                 /\ Cardinality(r) = Cardinality(contours.region_50) =>
                       ScanIndex(FirstCell(contours.region_50)) <= ScanIndex(FirstCell(r))

\* Two regions of the 50% mask share the largest size.
C30_Witness ==
    /\ contours.done
    /\ contours.tied_50

\* C22: whenever a dataset has a valid final position, the centroid
\* (weighted / weight along each axis) lies between the first and the last
\* edge of the grid built around the positions.
C22_CentroidInsideGrid ==
    (centroid.done /\ centroid.weight > 0) =>
        /\ centroid.lon_edges[1] * centroid.weight <= centroid.lon_weighted
        /\ centroid.lon_weighted <= centroid.lon_edges[LonBins + 1] * centroid.weight
        /\ centroid.lat_edges[1] * centroid.weight <= centroid.lat_weighted
        /\ centroid.lat_weighted <= centroid.lat_edges[LatBins + 1] * centroid.weight

\* Two valid final positions that differ in both coordinates gave a centroid.
C22_Witness ==
    /\ centroid.done
    /\ centroid.weight > 0
    /\ \E i, j \in DOMAIN ds :
          /\ ~isnan(ds[i].lon) /\ ~isnan(ds[i].lat)
          /\ ~isnan(ds[j].lon) /\ ~isnan(ds[j].lat)
          /\ ds[i].lon # ds[j].lon
          /\ ds[i].lat # ds[j].lat

\* Number of time steps of a particle with both coordinates defined.
ValidSteps(track) ==
    Cardinality({t \in DOMAIN track : ~isnan(track[t].lon) /\ ~isnan(track[t].lat)})

\* C23: re-parsing the written polygon gives exactly one ring whose first
\* vertex equals its last; re-parsing the written FeatureCollection gives one
\* LineString per sampled particle with a valid time step, each with as many
\* points as that particle has time steps with lon and lat both defined.
C23_RoundTripCountsAndClosure ==
    geojson.done =>
        /\ geojson.contour # << >> =>
              LET rings == loads_polygon(geojson.polygon)
              IN /\ Len(rings) = 1
                 /\ rings[1][1] = rings[1][Len(rings[1])]
                 /\ Len(rings[1]) >= Len(geojson.contour)
        /\ tracks # << >> =>
              LET parsed == loads(geojson.document)
                  sampled == {sample_indices(Len(tracks))[i] :
                                 i \in DOMAIN sample_indices(Len(tracks))}
              IN /\ {parsed[i].trajectory_id : i \in DOMAIN parsed}
                      = {k \in sampled : ValidSteps(tracks[k + 1]) > 0}
                 /\ \A i \in DOMAIN parsed :
                       /\ parsed[i].type = "LineString"
                       /\ Len(parsed[i].coordinates)
                             = ValidSteps(tracks[parsed[i].trajectory_id + 1])

\* An open boundary was closed into a ring.
C23_Witness ==
    /\ geojson.done
    /\ Len(geojson.contour) >= 2
    /\ geojson.contour[1] # geojson.contour[Len(geojson.contour)]

\* C24: the FeatureCollection written to trajectories.geojson holds one
\* Polygon feature for every search-area level whose polygon exists.
C24_PolygonsInFeatureCollection ==
    (geojson.done /\ tracks # << >>) =>
        LET parsed == loads(geojson.document)
        IN Cardinality({i \in DOMAIN parsed : parsed[i].type = "Polygon"})
              = Cardinality(geojson.areas)

\* The columns process_results writes that are set in a result row.
Written(row) ==
    {f \in {"centroid", "search_areas", "products", "counts"} : row[f] # NULL}

\* C25: a step of process_results either leaves every result row as it was or
\* is the UPDATE after the third upload, which sets centroid, search areas,
\* artifact references and counts of the mission's rows together; so every
\* row has all of them or none, and has them only while the three derived
\* artifacts of its mission are in the bucket.
C25_ResultRowAllOrNothing ==
    [][/\ \A m \in Missions : \A i \in DOMAIN mission_results'[m] :
             /\ Written(mission_results'[m][i]) \in
                   {{}, {"centroid", "search_areas", "products", "counts"}}
             /\ Written(mission_results'[m][i]) # {} =>
                   \A k \in DOMAIN DerivedArtifacts :
                       DerivedArtifacts[k] \in artifacts'[m]
       /\ (processor' # processor /\ mission_results' # mission_results) =>
             /\ processor.pc = "update"
             /\ processor.uploaded = Len(DerivedArtifacts)
             /\ \A m \in Missions \ {processor.mission_id} :
                   mission_results'[m] = mission_results[m]
             /\ \A i \in DOMAIN mission_results'[processor.mission_id] :
                   Written(mission_results'[processor.mission_id][i]) # {}]_vars

\* One run of process_results committed its UPDATE, and a later run for the
\* same mission failed after its first upload.
C25_Witness ==
    /\ processor.pc = "returned"
    /\ processor.error = PublishError
    /\ processor.uploaded >= 1
    /\ \E i \in DOMAIN mission_results[processor.mission_id] :
          mission_results[processor.mission_id][i].counts # NULL

\* C28: a mark_processing call leaves error_message, completed_at and every
\* result row as they were, changes nothing at all when the mission is
\* already processing, and applied to its own result changes nothing.
C28_MarkProcessingIdempotent ==
    [][\A w \in Workers :
          (worker[w].pc = "mark_processing" /\ worker'[w].pc # "mark_processing") =>
              LET m == worker[w].mission_id
                  once == UpdateMissionsRow(missions[m], STATUS_PROCESSING, NULL, NULL)
              IN /\ missions'[m].error_message = missions[m].error_message
                 /\ missions'[m].completed_at = missions[m].completed_at
                 /\ mission_results' = mission_results
                 /\ missions'[m] \in {missions[m], once}
                 /\ UpdateMissionsRow(once, STATUS_PROCESSING, NULL, NULL) = once
                 /\ missions[m].status = STATUS_PROCESSING => missions' = missions]_vars

\* Two workers hold the same mission and both have marked it processing.
C28_Witness ==
    /\ \A w \in Workers : worker[w].pc = "simulate" /\ worker[w].mission_id = "m1"
    /\ missions["m1"].status = STATUS_PROCESSING
    /\ missions["m1"].completed_at = NULL

\* The required variables that are unset in the environment.
Unset == {v \in RequiredVars : env[v] = NULL}

\* C26 as stated: whenever a required variable is unset, the constructor
\* ends in the ValueError that names every missing variable, with no
\* connection opened.
C26_MissingVarsNamed ==
    (ctor.pc \in {"raised", "ready"} /\ Unset # {}) =>
        /\ ctor.pc = "raised"
        /\ ctor.raised = MissingError
        /\ Unset \subseteq ctor.named
        /\ ~ctor.connected

\* C26 amended: whenever a required variable is unset, the constructor ends
\* in a ValueError with no connection opened; the error names every missing
\* variable when MAX_CONCURRENT_JOBS and POLL_INTERVAL are unset or integer
\* literals, and is int()'s own ValueError otherwise.
C26_MissingVarsNamedIfIntsParse ==
    (ctor.pc \in {"raised", "ready"} /\ Unset # {}) =>
        /\ ctor.pc = "raised"
        /\ ~ctor.connected
        /\ IF \A v \in IntVars : env[v] # "abc"
             THEN /\ ctor.raised = MissingError
                  /\ Unset \subseteq ctor.named
                  /\ ctor.named = {v \in RequiredVars : env[v] \in {NULL, ""}}
             ELSE ctor.raised = LiteralError

\* Two required variables are unset, REDIS_URL among them, and both are named.
C26_Witness ==
    /\ ctor.pc = "raised"
    /\ ctor.raised = MissingError
    /\ Unset = {"REDIS_URL", "S3_ENDPOINT"}
    /\ ctor.named = Unset

\* C27: validate raises exactly when min_lat >= max_lat, min_lon >= max_lon,
\* a latitude is outside [-90, 90], a longitude is outside [-180, 180], or
\* start_time >= end_time.
C27_ValidateRaisesExactly ==
    verdict # NULL =>
        (verdict # "ok" <=>
            \/ req.min_lat >= req.max_lat
            \/ req.min_lon >= req.max_lon
            \/ \E lat \in {req.min_lat, req.max_lat} : lat < 0 - 90 \/ lat > 90
            \/ \E lon \in {req.min_lon, req.max_lon} : lon < 0 - 180 \/ lon > 180
            \/ req.start_time >= req.end_time)

\* A request with min_lat = max_lat and nothing else wrong was rejected.
C27_Witness ==
    /\ verdict = "min_lat must be less than max_lat"
    /\ req.min_lat = req.max_lat
    /\ req.min_lat = 0
    /\ req.min_lon < req.max_lon
    /\ req.start_time < req.end_time

\* C34: whenever process_job has returned completed after a mark_completed
\* write that succeeded, a ResultsJob for the mission was pushed by that
\* delivery, a transient failure of the push included.
C34_CompletedHasResultsJob ==
    \A w \in Workers :
        ( /\ worker[w].pc = "returned"
          /\ worker[w].result = STATUS_COMPLETED
          /\ ~worker[w].write_failed
          /\ missions[worker[w].mission_id].status = STATUS_COMPLETED )
        => worker[w].enqueued

\* C35: whenever process_results has returned completed for a mission, a
\* mission_results row of that mission exists and holds the centroid and the
\* artifact references, also when the worker's INSERT had failed.
C35_ReturnedCompletedHasRow ==
    (processor.pc = "returned" /\ processor.result = STATUS_COMPLETED) =>
        \E i \in DOMAIN mission_results[processor.mission_id] :
            /\ mission_results[processor.mission_id][i].centroid # NULL
            /\ mission_results[processor.mission_id][i].products # NULL

\* C36: a failed database update of one ResultsJob leaves the processor's
\* connection usable: whenever process_results is entered or under way, the
\* connection holds no aborted transaction.
C36_FailedUpdateLeavesConnectionUsable ==
    processor.pc \in {"poll", "analyse", "upload", "update"} =>
        ~processor.tx_aborted

\* C39: a delivery that returns failed has inserted no mission_results row
\* and pushed no ResultsJob: a worker's step inserts a row only at
\* mark_completed and pushes only at the enqueue step, a delivery that got
\* that far never reaches the except clause or returns failed, and failed is
\* returned from the except clause only.
C39_FailedDeliveryProducesNothing ==
    [][\A w \in Workers :
          worker'[w] # worker[w] =>
            /\ worker[w].pc # "mark_completed" => mission_results' = mission_results
            /\ worker[w].pc # "enqueue" => results_queue' = results_queue
            /\ (worker[w].pc \in {"mark_completed", "enqueue"} /\ ~CrashStep(w)) =>
                  /\ worker'[w].pc \in {"enqueue", "returned"}
                  /\ worker'[w].result # STATUS_FAILED
            /\ worker'[w].result = STATUS_FAILED =>
                  /\ worker[w].pc = "except"
                  /\ ~worker'[w].enqueued]_vars

C39_Witness ==
    \E w \in Workers :
        /\ worker[w].pc = "returned"
        /\ worker[w].result = STATUS_FAILED
        /\ worker[w].raised_by = "engine"
        /\ mission_results[worker[w].mission_id] = << >>
        /\ results_queue = << >>
        /\ \E v \in Workers :
              worker[v].pc = "returned" /\ worker[v].result = STATUS_COMPLETED


\* The stores and the two Redis lists.
Stores == <<missions, mission_results, artifacts, job_queue, results_queue>>

\* C33: a blpop that times out on an empty list is a normal outcome for both
\* loops: the only step a loop takes at an empty list is the timeout, which
\* writes nothing to the Mission Store or the Artifact Store, pushes nothing
\* and enters no error handling; the step after it is the next poll, with
\* nothing written either.
C33_TimeoutIsNormal ==
    [][/\ \A w \in Workers :
            /\ ( /\ worker[w].pc = "poll"
                 /\ job_queue = << >>
                 /\ worker'[w] # worker[w] )
               => /\ worker'[w] = [IdleWorker EXCEPT !.pc = "timed_out"]
                  /\ UNCHANGED Stores
            /\ (worker[w].pc = "timed_out" /\ worker'[w] # worker[w])
               => /\ worker'[w] = IdleWorker
                  /\ UNCHANGED Stores
       /\ ( /\ processor.pc = "poll"
            /\ results_queue = << >>
            /\ processor' # processor )
          => /\ processor'.pc = "timed_out"
             /\ processor'.error = NULL
             /\ UNCHANGED Stores
       /\ (processor.pc = "timed_out" /\ processor' # processor)
          => /\ processor'.pc = "poll"
             /\ processor'.error = NULL
             /\ UNCHANGED Stores]_vars

\* Both loops wait at an empty list after a mission went through both.
C33_Witness ==
    /\ processor.pc = "timed_out"
    /\ \A w \in Workers : worker[w].pc = "timed_out"
    /\ job_queue = << >>
    /\ results_queue = << >>
    /\ \E m \in Missions :
          /\ mission_results[m] # << >>
          /\ mission_results[m][1].centroid # NULL


\* The time steps of a particle with both coordinates defined.
DefinedSteps(track) ==
    {t \in DOMAIN track : ~isnan(track[t].lon) /\ ~isnan(track[t].lat)}

\* C32: for N particles the sampled indices are min(SampleCap, N) strictly
\* increasing indices, each the evenly spaced position between 0 and N - 1
\* cut to an integer, the first 0 and, for N > 1, the last N - 1; the written
\* document holds at most that many features, each of a sampled particle, and
\* a feature's points are that particle's positions at the time steps with
\* lon and lat both defined, in time order and nothing else.
C32_SampledTrajectories ==
    (geojson.done /\ tracks # << >>) =>
        LET N == Len(tracks)
            idx == sample_indices(N)
            size == Len(idx)
            parsed == loads(geojson.document)
        IN /\ size = (IF N < SampleCap THEN N ELSE SampleCap)
           /\ \A i \in 1..(size - 1) : idx[i] < idx[i + 1]
           /\ idx[1] = 0
           /\ N > 1 => idx[size] = N - 1
           /\ \A i \in 1..size :
                 size > 1 =>
                    /\ idx[i] * (size - 1) <= (i - 1) * (N - 1)
                    /\ (i - 1) * (N - 1) < (idx[i] + 1) * (size - 1)
           /\ Len(parsed) <= size
           /\ \A j \in DOMAIN parsed :
                 LET id == parsed[j].trajectory_id
                     track == tracks[id + 1]
                     steps == DefinedSteps(track)
                 IN /\ \E i \in 1..size : idx[i] = id
                    /\ Len(parsed[j].coordinates) = Cardinality(steps)
                    /\ \A i \in DOMAIN parsed[j].coordinates :
                          LET t == CHOOSE u \in steps :
                                      Cardinality({v \in steps : v < u}) = i - 1
                          IN parsed[j].coordinates[i]
                                = <<track[t].lon[1], track[t].lat[1]>>

\* More particles than are sampled; the last one has a gap at its first time
\* step and is written without it.
C32_Witness ==
    /\ geojson.done
    /\ Len(tracks) > SampleCap
    /\ Len(tracks[1]) = 2
    /\ DefinedSteps(tracks[Len(tracks)]) = {2}
    /\ DefinedSteps(tracks[1]) = {1, 2}
    /\ Len(loads(geojson.document)) = SampleCap

\* C40: every LineString of the written FeatureCollection has at least two
\* coordinates.
C40_LineStringsHaveTwoPoints ==
    (geojson.done /\ tracks # << >>) =>
        \A j \in DOMAIN loads(geojson.document) :
            Len(loads(geojson.document)[j].coordinates) >= 2


\* C31: a level whose largest region has no boundary inside the grid (it
\* fills the grid) gets no polygon and its search_area column is bound to
\* NULL, while the other level's column still gets its polygon whenever that
\* level has one; no level is without a region.
C31_MissingPolygonIsNull ==
    contours.done =>
        /\ contours.region_50 # {} /\ contours.region_90 # {}
        /\ contours.region_50 = Cells <=> contours.search_area_50_geom = NULL
        /\ contours.region_90 = Cells <=> contours.search_area_90_geom = NULL
        /\ contours.region_50 # Cells => contours.search_area_50_geom = "json"
        /\ contours.region_90 # Cells => contours.search_area_90_geom = "json"

\* The 90% region fills the grid and the 50% region does not: one column
\* NULL, the other written.
C31_Witness ==
    /\ contours.done
    /\ contours.region_90 = Cells
    /\ contours.search_area_90_geom = NULL
    /\ contours.region_50 # Cells
    /\ contours.search_area_50_geom = "json"


\* C37: a layer for which the data-service answered 200 with a DataResponse
\* (which always lists files) is downloaded and used as a reader.
C37_ListedFilesBecomeReaders ==
    forcing.configured =>
        \A l \in ForcingLayers :
            layers[l] # "http_error" => l \in forcing.readers

\* C38: the request built for a seed position within [-90, 90] x [-180, 180]
\* and a positive duration passes DataRequest.validate.
C38_WorkerRequestIsValid ==
    verdict # NULL => verdict = "ok"

====
